---- MODULE Spec2Model ----
(***************************************************************************)
(* Model of src/app.py: the OECD main-economic-indicators dashboard.       *)
(*                                                                         *)
(* The script is re-executed top to bottom on every user interaction.      *)
(* A run is modelled by a program counter that walks through the script:   *)
(*   call   : line 54, df = fetch_clean_combine() through @st.cache_data   *)
(*   cli/bci/cci : lines 10-12, the three sequential remote queries        *)
(*   combine: lines 14-20, tagging and pd.concat(ignore_index=True)        *)
(*   select : lines 56-59, df.Country.unique() and st.multiselect          *)
(*   chart  : lines 62-109, px.line on the filtered frame and styling      *)
(*   hline  : lines 111-122, the reference-line loop                       *)
(*   show   : line 124, st.plotly_chart                                    *)
(*   done / error : the run finished, or an exception reached the shell    *)
(***************************************************************************)
EXTENDS Integers, Sequences, FiniteSets, TLC

\* ------------------------------------------------------------------ bounds
\* Longest raw table a remote query returns in the model.
MaxRows == 2
\* Number of failed remote queries explored in one session.
MaxFailures == 1

\* --------------------------------------------------------- program constants
\* .query("period >= '2020'")
StartYear == 2020

\* enumerate(['CLI', 'BCI', 'CCI']) and the order of the three fetches
Indicators == <<"CLI", "BCI", "CCI">>

\* The hard-coded default of the multiselect.
DefaultRegions == {"United States"}

\* ------------------------------------------------------ the remote provider
\* Country names, periods (coded YYYYMM) and values (strings, with the
\* provider's 'NA' sentinel) a remote payload may contain.
Countries == {"United States", "Germany"}
Periods == {201912, 202001}
Values == {"NA", "100.5"}

RawRow == [Country : Countries, period : Periods, value : Values]
RawBatches == UNION {[1..n -> RawRow] : n \in 0..MaxRows}

\* ----------------------------------------------------------------- helpers
\* The year a period string starts with.  "period >= '2020'" compares
\* strings: a 'YYYY-MM...' string is >= '2020' exactly when its year is.
YearOf(p) == p \div 100

\* fetch_series returns a frame with a fresh 0-based index.
Indexed(raw) ==
    [i \in 1..Len(raw) |->
        [idx |-> i - 1, Country |-> raw[i].Country,
         period |-> raw[i].period, value |-> raw[i].value]]

QueryValue(b) == SelectSeq(b, LAMBDA r : r.value # "NA")

QueryPeriod(b) == SelectSeq(b, LAMBDA r : YearOf(r.period) >= StartYear)

\* Mutant of Clean: the period filter is forgotten.
Clean_NoPeriodFilter(raw) == QueryValue(Indexed(raw))

\* fetch_series(...).query("value != 'NA'").query("period >= '2020'")
Clean(raw) == QueryPeriod(QueryValue(Indexed(raw)))

\* dfxxx['Indicator'] = tag
Tag(b, t) ==
    [i \in 1..Len(b) |->
        [idx |-> b[i].idx, Country |-> b[i].Country, period |-> b[i].period,
         value |-> b[i].value, Indicator |-> t]]

\* ignore_index=True: the rows are renumbered 0..n-1.
Reindex(b) ==
    [i \in 1..Len(b) |->
        [idx |-> i - 1, Country |-> b[i].Country, period |-> b[i].period,
         value |-> b[i].value, Indicator |-> b[i].Indicator]]

\* Mutant of Concat: ignore_index is left out, the source indices are kept.
Concat_KeepIndex(a, b, c) == a \o b \o c

\* pd.concat([dfcli, dfbci, dfcci], ignore_index=True)
Concat(a, b, c) == Reindex(a \o b \o c)

\* Mutant of TagAll: the third frame gets the second frame's label.
TagAll_WrongLabel(a, b, c) == <<Tag(a, "CLI"), Tag(b, "BCI"), Tag(c, "BCI")>>

\* Lines 14-16: the three frames with their labels.
TagAll(a, b, c) ==
    <<Tag(a, Indicators[1]), Tag(b, Indicators[2]), Tag(c, Indicators[3])>>

\* Values of a column in order of first appearance (Series.unique,
\* and the order in which px assigns facet rows and colours).
RECURSIVE UniqueOf(_, _)
UniqueOf(s, seen) ==
    IF s = <<>> THEN <<>>
    ELSE IF Head(s) \in seen THEN UniqueOf(Tail(s), seen)
         ELSE <<Head(s)>> \o UniqueOf(Tail(s), seen \cup {Head(s)})

Range(s) == {s[i] : i \in DOMAIN s}

CountryColumn(d) == [i \in 1..Len(d) |-> d[i].Country]
IndicatorColumn(d) == [i \in 1..Len(d) |-> d[i].Indicator]

\* df.Country.unique()
Unique(d) == UniqueOf(CountryColumn(d), {})

\* df[df.Country.isin(Regions)]
Filter(d, R) == SelectSeq(d, LAMBDA r : r.Country \in R)

\* ------------------------------------------------------------------ figure
NoFig == [built |-> FALSE, facets |-> <<>>, nrows |-> 0,
          traces |-> {}, hlines |-> <<>>]

\* px.line(..., color='Country', facet_row='Indicator'): one facet row per
\* indicator value in order of first appearance (first value on top), one
\* trace per (indicator, country) pair present; a frame without rows still
\* gives a one-cell grid.
PxLine(d) ==
    LET f == UniqueOf(IndicatorColumn(d), {}) IN
    [built |-> TRUE, facets |-> f,
     nrows |-> IF Len(f) = 0 THEN 1 ELSE Len(f),
     traces |-> {<<d[i].Indicator, d[i].Country>> : i \in 1..Len(d)},
     hlines |-> <<>>]

\* The indicator shown on grid row r.  The grid of a px figure is built
\* with start_cell="bottom-left": grid row 1 is the bottom facet, so the
\* k-th facet value sits on grid row nrows - k + 1.
FacetAt(f, r) ==
    IF r \in 1..f.nrows /\ f.nrows - r + 1 \in 1..Len(f.facets)
    THEN f.facets[f.nrows - r + 1] ELSE "none"

\* row=i+1 for the entries of enumerate(['CLI','BCI','CCI']) that are in
\* ['BCI','CCI'] (TLA+ sequences are 1-based, so position i is row i).
RefRows ==
    SelectSeq([i \in 1..Len(Indicators) |-> i],
              LAMBDA i : Indicators[i] \in {"BCI", "CCI"})

\* A failed grid lookup cuts the loop short.  add_hline(row=r) looks the row
\* up in the figure's subplot grid and raises IndexError when the grid has
\* fewer than r rows; the rows handled before that keep their line.
RECURSIVE HlinePrefix(_, _)
HlinePrefix(rows, n) ==
    IF rows = <<>> \/ Head(rows) > n THEN <<>>
    ELSE <<Head(rows)>> \o HlinePrefix(Tail(rows), n)

\* Lines 112-122: the figure after the loop, and whether the loop raised.
AddHlines(f) ==
    LET done == HlinePrefix(RefRows, f.nrows) IN
    [fig |-> [f EXCEPT !.hlines = done],
     raised |-> Len(done) < Len(RefRows)]

\* ------------------------------------------------------------------- state
VARIABLES
    pc,          \* position of the current script run
    errAt,       \* the call that raised, when pc = "error"
    cache,       \* st.cache_data's store for fetch_clean_combine: <<>> or <<df>>
    issued,      \* number of remote queries issued in the session
    failures,    \* failed remote queries so far
    runLog,      \* remote queries issued by the current run, in order
    dfcli, dfbci, dfcci,   \* the locals of fetch_clean_combine while its body runs
    df,          \* the script's df
    locations,   \* the script's locations
    Regions,     \* the multiselect's value (session widget state)
    widgetShown, \* the multiselect has been rendered by the current run
    filtered,    \* the frame handed to px.line
    fig,         \* the script's fig
    shown        \* the chart displayed by the current run

vars == <<pc, errAt, cache, issued, failures, runLog, dfcli, dfbci, dfcci,
          df, locations, Regions, widgetShown, filtered, fig, shown>>

fetchState == <<cache, issued, failures, dfcli, dfbci, dfcci>>
viewState == <<locations, widgetShown, filtered, fig, shown>>

PcOf(q) == CASE q = "CLI" -> "cli" [] q = "BCI" -> "bci" [] q = "CCI" -> "cci"
NextPc(q) == CASE q = "CLI" -> "bci" [] q = "BCI" -> "cci" [] q = "CCI" -> "combine"

Init ==
    /\ pc = "call"
    /\ errAt = ""
    /\ cache = <<>>
    /\ issued = 0
    /\ failures = 0
    /\ runLog = <<>>
    /\ dfcli = <<>> /\ dfbci = <<>> /\ dfcci = <<>>
    /\ df = <<>>
    /\ locations = <<>>
    /\ Regions = DefaultRegions
    /\ widgetShown = FALSE
    /\ filtered = <<>>
    /\ fig = NoFig
    /\ shown = NoFig

\* A new run of the script: its locals and its output start afresh.
StartRun ==
    /\ pc' = "call"
    /\ errAt' = ""
    /\ runLog' = <<>>
    /\ df' = <<>>
    /\ locations' = <<>>
    /\ widgetShown' = FALSE
    /\ filtered' = <<>>
    /\ fig' = NoFig
    /\ shown' = NoFig

\* Mutant of CallCached: the function is not memoized, every run fetches.
CallCached_NoMemo ==
    /\ pc = "call"
    /\ pc' = "cli"
    /\ UNCHANGED <<errAt, cache, issued, failures, runLog, df, Regions>>
    /\ UNCHANGED <<dfcli, dfbci, dfcci>>
    /\ UNCHANGED viewState

\* Line 54 through @st.cache_data: a stored value is returned without
\* running the body; otherwise the body starts.
CallCached ==
    /\ pc = "call"
    /\ IF cache # <<>>
       THEN /\ df' = cache[1]
            /\ pc' = "select"
       ELSE /\ pc' = "cli"
            /\ UNCHANGED df
    /\ UNCHANGED <<errAt, cache, issued, failures, runLog, Regions>>
    /\ UNCHANGED <<dfcli, dfbci, dfcci>>
    /\ UNCHANGED viewState

SetBatch(q, b) ==
    /\ dfcli' = IF q = "CLI" THEN b ELSE dfcli
    /\ dfbci' = IF q = "BCI" THEN b ELSE dfbci
    /\ dfcci' = IF q = "CCI" THEN b ELSE dfcci

\* One of lines 10-12 when the provider answers.
FetchReturns(q) ==
    /\ pc = PcOf(q)
    /\ \E raw \in RawBatches : SetBatch(q, Clean(raw))
    /\ issued' = issued + 1
    /\ runLog' = Append(runLog, q)
    /\ pc' = NextPc(q)
    /\ UNCHANGED <<errAt, cache, failures, df, Regions>>
    /\ UNCHANGED viewState

\* Mutant of FetchRaises: the error is swallowed and an empty frame is used.
FetchRaises_Fallback(q) ==
    /\ pc = PcOf(q)
    /\ failures < MaxFailures
    /\ SetBatch(q, <<>>)
    /\ issued' = issued + 1
    /\ failures' = failures + 1
    /\ runLog' = Append(runLog, q)
    /\ pc' = NextPc(q)
    /\ UNCHANGED <<errAt, cache, df, Regions>>
    /\ UNCHANGED viewState

\* One of lines 10-12 when fetch_series raises: nothing catches it, the
\* function is left (its locals are gone), nothing is stored, the run ends
\* in the shell's error display.
FetchRaises(q) ==
    /\ pc = PcOf(q)
    /\ failures < MaxFailures
    /\ issued' = issued + 1
    /\ failures' = failures + 1
    /\ runLog' = Append(runLog, q)
    /\ pc' = "error"
    /\ errAt' = "fetch_series"
    /\ dfcli' = <<>> /\ dfbci' = <<>> /\ dfcci' = <<>>
    /\ UNCHANGED <<cache, df, Regions>>
    /\ UNCHANGED viewState

FetchCLI == FetchReturns("CLI") \/ FetchRaises("CLI")
FetchBCI == FetchReturns("BCI") \/ FetchRaises("BCI")
FetchCCI == FetchReturns("CCI") \/ FetchRaises("CCI")

\* What lines 14-20 return for the three cleaned frames.
Combined(a, b, c) ==
    LET t == TagAll(a, b, c) IN Concat(t[1], t[2], t[3])

\* Lines 14-20: tag, concatenate, return (the function's locals are gone);
\* the decorator stores the result and the script binds it to df.
Combine ==
    /\ pc = "combine"
    /\ df' = Combined(dfcli, dfbci, dfcci)
    /\ cache' = <<Combined(dfcli, dfbci, dfcci)>>
    /\ dfcli' = <<>> /\ dfbci' = <<>> /\ dfcci' = <<>>
    /\ pc' = "select"
    /\ UNCHANGED <<errAt, issued, failures, runLog, Regions>>
    /\ UNCHANGED viewState

\* Lines 56-59.  st.multiselect raises when a default value is not one of
\* the options; otherwise it returns the widget's value.
Multiselect ==
    /\ pc = "select"
    /\ locations' = Unique(df)
    /\ IF DefaultRegions \subseteq Range(Unique(df))
       THEN /\ widgetShown' = TRUE
            /\ pc' = "chart"
            /\ UNCHANGED errAt
       ELSE /\ pc' = "error"
            /\ errAt' = "multiselect"
            /\ UNCHANGED widgetShown
    /\ UNCHANGED <<runLog, df, Regions, filtered, fig, shown>>
    /\ UNCHANGED fetchState

\* Mutant of BuildChart: the filtered frame is assigned back to df.
BuildChart_Rebind ==
    /\ pc = "chart"
    /\ filtered' = Filter(df, Regions)
    /\ df' = Filter(df, Regions)
    /\ fig' = PxLine(Filter(df, Regions))
    /\ pc' = "hline"
    /\ UNCHANGED <<errAt, runLog, Regions, locations, widgetShown, shown>>
    /\ UNCHANGED fetchState

\* Lines 62-109: the filtered frame and the figure built from it (the
\* layout, axis and trace updates change styling only).
BuildChart ==
    /\ pc = "chart"
    /\ filtered' = Filter(df, Regions)
    /\ fig' = PxLine(Filter(df, Regions))
    /\ pc' = "hline"
    /\ UNCHANGED <<errAt, runLog, df, Regions, locations, widgetShown, shown>>
    /\ UNCHANGED fetchState

\* Lines 111-122.
AddRefLines ==
    /\ pc = "hline"
    /\ fig' = AddHlines(fig).fig
    /\ IF AddHlines(fig).raised
       THEN pc' = "error" /\ errAt' = "add_hline"
       ELSE pc' = "show" /\ UNCHANGED errAt
    /\ UNCHANGED <<runLog, df, Regions, locations, widgetShown, filtered, shown>>
    /\ UNCHANGED fetchState

\* Line 124.
PlotlyChart ==
    /\ pc = "show"
    /\ shown' = fig
    /\ pc' = "done"
    /\ UNCHANGED <<errAt, runLog, df, Regions, locations, widgetShown, filtered, fig>>
    /\ UNCHANGED fetchState

\* The user changes the multiselect, which offers the options it was
\* rendered with; the script is run again from the top.
ChangeSelection ==
    /\ widgetShown
    /\ \E R \in SUBSET Range(locations) : R # Regions /\ Regions' = R
    /\ StartRun
    /\ UNCHANGED fetchState

\* The user asks for a rerun after a run has ended (the only way on after
\* an error raised before the widget is rendered).
Rerun ==
    /\ pc \in {"done", "error"}
    /\ StartRun
    /\ UNCHANGED Regions
    /\ UNCHANGED fetchState

Next ==
    \/ CallCached
    \/ FetchCLI
    \/ FetchBCI
    \/ FetchCCI
    \/ Combine
    \/ Multiselect
    \/ BuildChart
    \/ AddRefLines
    \/ PlotlyChart
    \/ ChangeSelection
    \/ Rerun

Spec == Init /\ [][Next]_vars

\* ================================================================== claims

RowOk(r) == r.value # "NA" /\ r.period \div 100 >= 2020
AllRowsOk(d) == \A i \in 1..Len(d) : RowOk(d[i])

\* C3: every row of each fetched batch, and of the combined dataset in
\* every reachable state, has a value other than 'NA' and a period not
\* earlier than 2020.
C3_NoSentinelNoOldPeriod ==
    /\ AllRowsOk(dfcli) /\ AllRowsOk(dfbci) /\ AllRowsOk(dfcci)
    /\ AllRowsOk(df) /\ AllRowsOk(filtered)
    /\ cache # <<>> => AllRowsOk(cache[1])

\* A batch whose first surviving row is not the payload's first row (a row
\* was filtered out in front of it) made it into the combined dataset.
C3_Witness ==
    /\ pc = "cci"
    /\ Len(dfcli) = 1 /\ dfcli[1].idx = 1
    /\ Len(dfbci) = 2

Payload(r) == <<r.Country, r.period, r.value>>
TagPositions(d, t) == {i \in 1..Len(d) : d[i].Indicator = t}

\* C4: the combined dataset has as many rows as the three filtered batches
\* together, and its tags split it into three disjoint parts: the rows of
\* the first query are tagged CLI, of the second BCI, of the third CCI.
C4_CountAndTags ==
    [][pc = "combine" =>
        LET n1 == Len(dfcli)
            n2 == Len(dfbci)
            n3 == Len(dfcci)
        IN /\ Len(df') = n1 + n2 + n3
           /\ TagPositions(df', "CLI") = 1..n1
           /\ TagPositions(df', "BCI") = (n1 + 1)..(n1 + n2)
           /\ TagPositions(df', "CCI") = (n1 + n2 + 1)..(n1 + n2 + n3)
           /\ \A i \in 1..n1 : Payload(df'[i]) = Payload(dfcli[i])
           /\ \A i \in 1..n2 : Payload(df'[n1 + i]) = Payload(dfbci[i])
           /\ \A i \in 1..n3 : Payload(df'[n1 + n2 + i]) = Payload(dfcci[i])
           /\ cache' = <<df'>>]_vars

\* The function has just returned a dataset with rows of all three tags.
C4_Witness ==
    /\ pc = "select" /\ runLog = Indicators
    /\ Cardinality(TagPositions(df, "CLI")) = 2
    /\ Cardinality(TagPositions(df, "BCI")) = 1
    /\ Cardinality(TagPositions(df, "CCI")) = 2

\* C10: the combined dataset is the three batches in the order CLI, BCI,
\* CCI, each in its source order, nothing sorted or deduplicated, and the
\* rows are re-indexed 0..n-1 over the whole table.
C10_OrderAndIndex ==
    [][pc = "combine" =>
        /\ [i \in 1..Len(df') |-> Payload(df'[i])]
             = [i \in 1..Len(dfcli) |-> Payload(dfcli[i])]
               \o [i \in 1..Len(dfbci) |-> Payload(dfbci[i])]
               \o [i \in 1..Len(dfcci) |-> Payload(dfcci[i])]
        /\ \A i \in 1..Len(df') : df'[i].idx = i - 1]_vars

\* A combined dataset whose first batch is not in sorted order and whose
\* last batch holds the same payload twice, numbered through to 3.
C10_Witness ==
    /\ pc = "select" /\ runLog = Indicators
    /\ Len(df) = 4
    /\ df[1].Indicator = "CLI" /\ df[1].Country = "United States"
    /\ df[2].Indicator = "CLI" /\ df[2].Country = "Germany"
    /\ df[3].Indicator = "CCI" /\ df[4].Indicator = "CCI"
    /\ Payload(df[3]) = Payload(df[4])
    /\ df[4].idx = 3

C6_DatasetUntouched ==
    [][/\ cache # <<>> => cache' = cache
       /\ pc' \in {"select", "chart", "hline", "show", "done"} =>
            /\ cache' # <<>>
            /\ df' = cache'[1]
       /\ pc' \in {"chart", "hline", "show", "done"} =>
            /\ Range(locations') = {cache'[1][i].Country : i \in 1..Len(cache'[1])}
            /\ Cardinality(Range(locations')) = Len(locations')]_vars

\* A chart of a proper part of the dataset is displayed after the user
\* changed the selection.
C6_Witness ==
    /\ pc = "done"
    /\ Regions # DefaultRegions
    /\ Len(filtered) < Len(df)
    /\ shown.built

\* C7: when a remote query fails, the run ends in the error display at
\* once: the failed query was issued once, the queries after it are not
\* issued, nothing is returned or stored, and no chart is shown.
C7_FetchErrorPropagates ==
    [][failures' # failures =>
        /\ pc' = "error" /\ errAt' = "fetch_series"
        /\ issued' = issued + 1
        /\ Len(runLog') = Len(runLog) + 1
        /\ runLog' = SubSeq(Indicators, 1, Len(runLog'))
        /\ cache = <<>> /\ cache' = <<>>
        /\ df' = <<>>
        /\ dfcli' = <<>> /\ dfbci' = <<>> /\ dfcci' = <<>>
        /\ ~fig'.built /\ ~shown'.built]_vars

\* The second query failed after the first had returned rows.
C7_Witness ==
    /\ pc = "error" /\ errAt = "fetch_series"
    /\ runLog = <<"CLI", "BCI">>
    /\ cache = <<>>

\* C1: the reference lines sit only on facet rows that display BCI or CCI,
\* never on the row that displays CLI, whatever the filtered data holds.
C1_RefLinesOnlyOnConfidenceFacets ==
    pc \in {"show", "done"} =>
        \A k \in 1..Len(fig.hlines) : FacetAt(fig, fig.hlines[k]) \in {"BCI", "CCI"}

\* C2: with an empty selection the filtered frame has no rows and the run
\* gets through chart build, reference lines and display without an error.
C2_EmptySelectionRenders ==
    (Regions = {} /\ fig.built) => (Len(filtered) = 0 /\ pc # "error")

\* C8: the filtered view is exactly the rows whose Country is selected, and
\* a selected name the dataset does not hold (the default 'United States'
\* included) gives no rows and no error.
C8_AbsentNameNoError ==
    /\ fig.built =>
          /\ \A i \in 1..Len(filtered) : filtered[i].Country \in Regions
          /\ {filtered[i].idx : i \in 1..Len(filtered)}
               = {df[i].idx : i \in {j \in 1..Len(df) : df[j].Country \in Regions}}
          /\ \A i \in 1..Len(filtered) : filtered[i] = df[filtered[i].idx + 1]
          /\ \A i \in 1..(Len(filtered) - 1) : filtered[i].idx < filtered[i + 1].idx
    /\ (cache # <<>> /\ df = cache[1]
        /\ \E n \in Regions : \A i \in 1..Len(df) : df[i].Country # n)
          => pc # "error"

CountriesOf(d, t) == {d[i].Country : i \in TagPositions(d, t)}
TracesOn(f, t) == {tr \in f.traces : tr[1] = t}

\* C9: three batches of 2 rows (CLI for 'United States' and 'Germany', and
\* one 'United States' row in each of BCI and CCI), 'United States'
\* selected: 3 filtered rows, 3 facet rows, 1 trace per facet, and exactly 2
\* reference lines, on the BCI and CCI facets.
C9_EndToEnd ==
    ( /\ pc = "done"
      /\ Regions = {"United States"}
      /\ \A t \in Range(Indicators) :
            /\ Cardinality(TagPositions(df, t)) = 2
            /\ CountriesOf(df, t) = {"United States", "Germany"} )
    => /\ Len(filtered) = 3
       /\ Len(shown.facets) = 3
       /\ \A t \in Range(Indicators) : Cardinality(TracesOn(shown, t)) = 1
       /\ Len(shown.hlines) = 2
       /\ {FacetAt(shown, shown.hlines[k]) : k \in 1..Len(shown.hlines)}
            = {"BCI", "CCI"}

====
